---- MODULE Spec2Model ----
(***************************************************************************)
(* Model of the florist back office of FlowerShop (floristapp/views.py     *)
(* over the tables of flowerapp/models.py): the staff gate, the order      *)
(* queue, the status advance and the bouquet availability matrix.          *)
(***************************************************************************)
EXTENDS Integers, Sequences, FiniteSets, TLC

VARIABLES
    orders,         \* table Order: pk -> row (status, composed_at, delivered_at)
    shops,          \* table FlowerShop: pk -> address (a string, as a sequence of characters)
    bouquets,       \* table Bouquet: pk -> name
    catalog,        \* table FlowerShopCatalogItem: <<shop pk, bouquet pk>> -> availability
    response,       \* the HTTP response of the last request served
    request,        \* history: the last request served (view, user, order_id)
    orders_before,  \* history: table Order as it was when the last request arrived
                    \* (under ConcurrentSpec: as it was in the initial state)
    pc,             \* per worker: position inside change_status
    order,          \* per worker: the local variable `order` of change_status
    writes,         \* history, per order pk: the status each completed save had read
    started         \* history: number of change_status requests accepted so far

vars == <<orders, shops, bouquets, catalog, response, request, orders_before,
          pc, order, writes, started>>

----------------------------------------------------------------------------
(* Bounds *)

MaxOrderId == 3
MaxShops == 2
MaxBouquets == 2
NumWorkers == 2
MaxRequests == 3

OrderIds == 1..MaxOrderId
\* ids a request may name: every possible pk and one that is never stored
RequestIds == 1..(MaxOrderId + 1)
Workers == 1..NumWorkers

----------------------------------------------------------------------------
(* flowerapp/models.py: Order *)

created == "created"
composing == "composing"
composed == "composed"
delivering == "delivering"
delivered == "delivered"
cancelled == "cancelled"

Status == {created, composing, composed, delivering, delivered, cancelled}

NULL == "NULL"
Timestamps == {NULL, "t1"}

\* The rows of table Order. composed_at and delivered_at are nullable and no
\* view of floristapp sets them: composed_at may or may not be set once an
\* order is composed, delivered_at is set on the delivered orders.
OrderRows ==
    { r \in [status : Status, composed_at : Timestamps, delivered_at : Timestamps] :
        /\ r.composed_at # NULL => r.status \in {composed, delivering, delivered}
        /\ r.delivered_at # NULL <=> r.status = delivered }

OrderTables == UNION { [S -> OrderRows] : S \in SUBSET OrderIds }

----------------------------------------------------------------------------
(* Users and responses *)

AnonymousUser == [is_authenticated |-> FALSE, is_staff |-> FALSE]
Users == { AnonymousUser,
           [is_authenticated |-> TRUE, is_staff |-> FALSE],
           [is_authenticated |-> TRUE, is_staff |-> TRUE] }

NoResponse == [kind |-> "none"]
Http404 == [kind |-> "Http404"]
redirect(to) == [kind |-> "redirect", to |-> to]
render(template_name, context) ==
    [kind |-> "render", template_name |-> template_name, context |-> context]

NoRequest == [view |-> "none"]

is_florist(user) == user.is_staff

\* @user_passes_test(is_florist, login_url='login'): the view body runs only
\* for a user that passes the test; anyone else is redirected to login.
user_passes_test(user, view_response) ==
    IF is_florist(user) THEN view_response ELSE redirect("login")

----------------------------------------------------------------------------
(* view_orders *)

ActiveStatuses == <<created, composing, composed>>

SeqRange(s) == { s[i] : i \in 1..Len(s) }

\* list.index: the 0-based position of the first occurrence
index(s, x) == (CHOOSE i \in 1..Len(s) : s[i] = x /\ \A j \in 1..(i - 1) : s[j] # x) - 1

\* mutant: the last status of the list is left out of the filter
filter_status_in_short(db, statuses) ==
    { id \in DOMAIN db : \E i \in 1..(Len(statuses) - 1) : db[id].status = statuses[i] }

\* Order.objects.filter(status__in=[...]): the pks of the matching rows
filter_status_in(db, statuses) == { id \in DOMAIN db : db[id].status \in SeqRange(statuses) }

\* The orders in which the store may return a set of rows (no ORDER BY)
RECURSIVE Scans(_)
Scans(S) ==
    IF S = {} THEN { <<>> }
    ELSE UNION { { <<x>> \o s : s \in Scans(S \ {x}) } : x \in S }

\* a model instance loaded from a row
Instance(db, pk) ==
    [id |-> pk, status |-> db[pk].status,
     composed_at |-> db[pk].composed_at, delivered_at |-> db[pk].delivered_at]

\* mutant: the two parts of the key swapped, so that the id decides first
sort_key_id_first(x) == <<x.id, index(ActiveStatuses, x.status)>>

\* key=lambda x: (index of x.status in the three active statuses, x.id)
sort_key(x) == <<index(ActiveStatuses, x.status), x.id>>

\* tuple comparison of two keys
KeyLess(a, b) == a[1] < b[1] \/ (a[1] = b[1] /\ a[2] < b[2])

\* sorted(): stable, ascending by key
RECURSIVE InsertSorted(_, _)
InsertSorted(x, s) ==
    IF s = <<>> THEN <<x>>
    ELSE IF KeyLess(sort_key(x), sort_key(s[Len(s)]))
         THEN Append(InsertSorted(x, SubSeq(s, 1, Len(s) - 1)), s[Len(s)])
    ELSE Append(s, x)

RECURSIVE SortInto(_, _)
SortInto(acc, s) ==
    IF s = <<>> THEN acc
    ELSE SortInto(InsertSorted(Head(s), acc), Tail(s))

sorted(s) == SortInto(<<>>, s)

\* the fields of the projection that this model carries
serialize_order(o) == [id |-> o.id, status |-> o.status]

\* the body of view_orders, for rows returned by the store in order `scan`
view_orders_body(db, scan) ==
    LET queryset == [i \in 1..Len(scan) |-> Instance(db, scan[i])]
        sorted_orders == sorted(queryset)
    IN render("orders.html",
              [orders |-> [i \in 1..Len(sorted_orders) |-> serialize_order(sorted_orders[i])]])

\* the responses view_orders may give: one per order the store may scan in
view_orders(user, db) ==
    IF is_florist(user)
    THEN { view_orders_body(db, scan) : scan \in Scans(filter_status_in(db, ActiveStatuses)) }
    ELSE { user_passes_test(user, NoResponse) }

----------------------------------------------------------------------------
(* change_status *)

\* mutant: a lookup that falls back to the first stored order
get_object_or_first(db, order_id) ==
    IF order_id \in DOMAIN db
    THEN [found |-> TRUE, obj |-> Instance(db, order_id)]
    ELSE IF DOMAIN db # {}
    THEN [found |-> TRUE,
          obj |-> Instance(db, CHOOSE id \in DOMAIN db : \A o \in DOMAIN db : id <= o)]
    ELSE [found |-> FALSE]

\* get_object_or_404(Order, pk=order_id)
get_object_or_404(db, order_id) ==
    IF order_id \in DOMAIN db
    THEN [found |-> TRUE, obj |-> Instance(db, order_id)]
    ELSE [found |-> FALSE]

\* mutant: two separate ifs in place of if / elif, so created falls through
advance_two_ifs(o) ==
    LET o1 == IF o.status = created THEN [o EXCEPT !.status = composing] ELSE o
    IN IF o1.status = composing THEN [o1 EXCEPT !.status = composed] ELSE o1

\* mutant: the chain continued past composed
advance_past_composed(o) ==
    IF o.status = created THEN [o EXCEPT !.status = composing]
    ELSE IF o.status = composing THEN [o EXCEPT !.status = composed]
    ELSE IF o.status = composed THEN [o EXCEPT !.status = delivering]
    ELSE o

\* the if / elif on order.status
advance(o) ==
    IF o.status = created THEN [o EXCEPT !.status = composing]
    ELSE IF o.status = composing THEN [o EXCEPT !.status = composed]
    ELSE o

\* order.save(update_fields=[...]): UPDATE of the named columns of row o.id
save(db, o, update_fields) ==
    [db EXCEPT ![o.id] =
        [f \in DOMAIN db[o.id] |-> IF f \in update_fields THEN o[f] ELSE db[o.id][f]]]

\* mutant: the composing -> composed transition also stamps composed_at
change_status_write_stamped(db, o) ==
    LET o1 == advance(o)
        o2 == IF o.status = composing THEN [o1 EXCEPT !.composed_at = "t1"] ELSE o1
    IN save(db, o2, {"status", "composed_at"})

\* mutant: the transition applied to the stored row (a conditional update in
\* the store) instead of to the instance loaded earlier
change_status_write_in_store(db, o) == save(db, advance(Instance(db, o.id)), {"status"})

\* lines 125-129 on a loaded instance: advance it, then save its status
change_status_write(db, o) == save(db, advance(o), {"status"})

----------------------------------------------------------------------------
(* The request-at-a-time specification of the order views *)

IdleWorkers == [w \in Workers |-> "idle"]
NoLocals == [w \in Workers |-> NoRequest]

OrdersInit ==
    /\ orders \in OrderTables
    /\ shops = <<>> /\ bouquets = <<>> /\ catalog = <<>>
    /\ response = NoResponse
    /\ request = NoRequest
    /\ orders_before = orders
    /\ pc = IdleWorkers /\ order = NoLocals
    /\ writes = [id \in DOMAIN orders |-> <<>>]
    /\ started = 0

ViewOrders(user) ==
    /\ request' = [view |-> "view_orders", user |-> user]
    /\ orders_before' = orders
    /\ response' \in view_orders(user, orders)
    /\ UNCHANGED <<orders, shops, bouquets, catalog, pc, order, writes, started>>

ChangeStatus(user, order_id) ==
    /\ request' = [view |-> "change_status", user |-> user, order_id |-> order_id]
    /\ orders_before' = orders
    /\ LET got == get_object_or_404(orders, order_id) IN
         IF ~got.found
         THEN /\ response' = Http404
              /\ orders' = orders
         ELSE /\ orders' = change_status_write(orders, got.obj)
              /\ response' \in view_orders(user, orders')
    /\ UNCHANGED <<shops, bouquets, catalog, pc, order, writes, started>>

Next ==
    \/ \E user \in Users : ViewOrders(user)
    \/ \E user \in Users, order_id \in RequestIds : ChangeStatus(user, order_id)

Spec == OrdersInit /\ [][Next]_vars

----------------------------------------------------------------------------
(* flowerapp/models.py: FlowerShop, Bouquet, FlowerShopCatalogItem *)

\* Strings are sequences of characters; Alphabet lists the characters used, in
\* code point order (space, comma, capitals, small letters).
Alphabet == <<" ", ",", "K", "L", "M", "a", "k", "n", "o", "r", "s", "ja">>

CharCode(c) == CHOOSE i \in 1..Len(Alphabet) : Alphabet[i] = c

\* s < t for two strings, character by character
RECURSIVE StrLess(_, _)
StrLess(s, t) ==
    IF t = <<>> THEN FALSE
    ELSE IF s = <<>> THEN TRUE
    ELSE IF Head(s) = Head(t) THEN StrLess(Tail(s), Tail(t))
    ELSE CharCode(Head(s)) < CharCode(Head(t))

\* the literal city prefix tested by view_availability
CityPrefix == <<"K", "r", "a", "s", "n", "o", "ja", "r", "s", "k", ",">>

\* the addresses the shops of the model may have: one with the city prefix,
\* one that only begins like it, one without it
Addresses ==
    { CityPrefix \o <<" ", "L">>,
      <<"K", "r", "a", "s", "n", "o", "ja", "r", "s", "k", "a", "ja">>,
      <<"M">> }

ShopIds == 1..MaxShops

\* FlowerShop.address is unique
ShopTables ==
    { t \in UNION { [S -> Addresses] : S \in SUBSET ShopIds } :
        \A a, b \in DOMAIN t : t[a] = t[b] => a = b }

\* Bouquet.name is unique; the later a bouquet was added, the earlier its name
BouquetTables ==
    { [id \in 1..m |-> <<Alphabet[Len(Alphabet) + 1 - id]>>] : m \in 0..MaxBouquets }

\* unique_together (flower_shop, bouquet); both are foreign keys with CASCADE
CatalogTables(shopTable, bouquetTable) ==
    UNION { [P -> BOOLEAN] : P \in SUBSET ((DOMAIN shopTable) \X (DOMAIN bouquetTable)) }

----------------------------------------------------------------------------
(* view_availability *)

\* str.startswith
startswith(s, prefix) ==
    Len(s) >= Len(prefix) /\ SubSeq(s, 1, Len(prefix)) = prefix

\* s[n:]
slice_from(s, n) == SubSeq(s, n + 1, Len(s))

\* str.strip(): drop the leading and the trailing whitespace
RECURSIVE lstrip(_)
lstrip(s) == IF s # <<>> /\ Head(s) = " " THEN lstrip(Tail(s)) ELSE s

RECURSIVE rstrip(_)
rstrip(s) ==
    IF s # <<>> /\ s[Len(s)] = " " THEN rstrip(SubSeq(s, 1, Len(s) - 1)) ELSE s

strip(s) == rstrip(lstrip(s))

PrefixLength == 11

\* the label of one shop in shops_addresses
shop_label(address) ==
    IF startswith(address, CityPrefix)
    THEN strip(slice_from(address, PrefixLength))
    ELSE address

\* objects.order_by(column): the pks of table t, ascending by its column
RECURSIVE InsertByColumn(_, _, _)
InsertByColumn(t, pk, s) ==
    IF s = <<>> THEN <<pk>>
    ELSE IF StrLess(t[pk], t[Head(s)]) THEN <<pk>> \o s
    ELSE <<Head(s)>> \o InsertByColumn(t, pk, Tail(s))

RECURSIVE SortByColumn(_, _)
SortByColumn(t, S) ==
    IF S = {} THEN <<>>
    ELSE LET pk == CHOOSE x \in S : TRUE
         IN InsertByColumn(t, pk, SortByColumn(t, S \ {pk}))

order_by(t) == SortByColumn(t, DOMAIN t)

\* dict.get(key, default)
dict_get(d, key, default) == IF key \in DOMAIN d THEN d[key] ELSE default

\* {item.flower_shop_id: item.availability for item in bouquet.catalog_items.all()}
bouquet_availability(cat, bouquet_id) ==
    [shop_id \in { p[1] : p \in { q \in DOMAIN cat : q[2] = bouquet_id } }
        |-> cat[<<shop_id, bouquet_id>>]]

\* mutant: a missing catalog item counted as in stock (the column's default)
ordered_availability_default_true(cat, bouquet_id, flower_shops) ==
    [i \in 1..Len(flower_shops) |->
        dict_get(bouquet_availability(cat, bouquet_id), flower_shops[i], TRUE)]

\* [availability.get(flower_shop.id, False) for flower_shop in flower_shops]
ordered_availability(cat, bouquet_id, flower_shops) ==
    [i \in 1..Len(flower_shops) |->
        dict_get(bouquet_availability(cat, bouquet_id), flower_shops[i], FALSE)]

view_availability_body(shopTable, bouquetTable, cat) ==
    LET flower_shops == order_by(shopTable)
        shops_addresses ==
            [i \in 1..Len(flower_shops) |-> shop_label(shopTable[flower_shops[i]])]
        bouquet_list == order_by(bouquetTable)
        bouquets_availability ==
            [i \in 1..Len(bouquet_list) |->
                <<bouquet_list[i], ordered_availability(cat, bouquet_list[i], flower_shops)>>]
    IN render("bouquets-availability.html",
              [bouquets_availability |-> bouquets_availability,
               shops_addresses |-> shops_addresses])

view_availability(user, shopTable, bouquetTable, cat) ==
    user_passes_test(user, view_availability_body(shopTable, bouquetTable, cat))

----------------------------------------------------------------------------
(* The specification of the availability view *)

AvailabilityInit ==
    /\ shops \in ShopTables
    /\ bouquets \in BouquetTables
    /\ catalog \in CatalogTables(shops, bouquets)
    /\ orders = <<>>
    /\ response = NoResponse
    /\ request = NoRequest
    /\ orders_before = orders
    /\ pc = IdleWorkers /\ order = NoLocals
    /\ writes = <<>>
    /\ started = 0

ViewAvailability(user) ==
    /\ request' = [view |-> "view_availability", user |-> user]
    /\ orders_before' = orders
    /\ response' = view_availability(user, shops, bouquets, catalog)
    /\ UNCHANGED <<orders, shops, bouquets, catalog, pc, order, writes, started>>

AvailabilityNext == \E user \in Users : ViewAvailability(user)

AvailabilitySpec == AvailabilityInit /\ [][AvailabilityNext]_vars

----------------------------------------------------------------------------
(* The specification of concurrent change_status requests: each worker      *)
(* serves one request at a time, and the steps of the requests interleave   *)
(* at the two queries (the SELECT of get_object_or_404, the UPDATE of save) *)
(* and at the queries of the closing view_orders                            *)

\* an order as the intake stores it: Order.status defaults to created, the
\* two nullable stamps are empty
NewOrder == [status |-> created, composed_at |-> NULL, delivered_at |-> NULL]

ConcurrentInit ==
    /\ orders = [id \in OrderIds |-> NewOrder]
    /\ shops = <<>> /\ bouquets = <<>> /\ catalog = <<>>
    /\ response = NoResponse
    /\ request = NoRequest
    /\ orders_before = orders
    /\ pc = IdleWorkers /\ order = NoLocals
    /\ writes = [id \in DOMAIN orders |-> <<>>]
    /\ started = 0

\* line 123: order = get_object_or_404(Order, pk=order_id)
GetOrder(w, order_id) ==
    /\ pc[w] = "idle"
    /\ started < MaxRequests
    /\ started' = started + 1
    /\ LET got == get_object_or_404(orders, order_id) IN
         IF ~got.found
         THEN /\ response' = Http404
              /\ UNCHANGED <<pc, order>>
         ELSE /\ order' = [order EXCEPT ![w] = got.obj]
              /\ pc' = [pc EXCEPT ![w] = "loaded"]
              /\ UNCHANGED response
    /\ UNCHANGED <<orders, shops, bouquets, catalog, request, orders_before, writes>>

\* lines 125-129: the if / elif on the loaded instance and order.save
SaveOrder(w) ==
    /\ pc[w] = "loaded"
    /\ orders' = change_status_write(orders, order[w])
    /\ writes' = [writes EXCEPT ![order[w].id] = Append(@, order[w].status)]
    /\ pc' = [pc EXCEPT ![w] = "saved"]
    /\ UNCHANGED <<shops, bouquets, catalog, response, request, orders_before, order, started>>

\* line 131: return view_orders(request). The user of the request is read
\* here for the first time, so it is drawn at this step.
Respond(w, user) ==
    /\ pc[w] = "saved"
    /\ response' \in view_orders(user, orders)
    /\ pc' = [pc EXCEPT ![w] = "idle"]
    /\ order' = [order EXCEPT ![w] = NoRequest]
    /\ UNCHANGED <<orders, shops, bouquets, catalog, request, orders_before, writes, started>>

ConcurrentNext ==
    \/ \E w \in Workers, order_id \in RequestIds : GetOrder(w, order_id)
    \/ \E w \in Workers : SaveOrder(w)
    \/ \E w \in Workers, user \in Users : Respond(w, user)

ConcurrentSpec == ConcurrentInit /\ [][ConcurrentNext]_vars

----------------------------------------------------------------------------
(* Properties of the order views *)

change_status_served == request.view = "change_status"
order_found == change_status_served /\ request.order_id \in DOMAIN orders_before
listing_rendered == response.kind = "render" /\ response.template_name = "orders.html"
listing == response.context.orders

\* position of a status in the workflow created < composing < composed
StagePosition(s) == CASE s = created -> 0 [] s = composing -> 1 [] s = composed -> 2

\* C1: change_status on an existing order maps the stored status by the table
\* created -> composing, composing -> composed, composed -> composed, and
\* delivering, delivered, cancelled unchanged.
C1_StatusAdvanceTable ==
    order_found =>
        LET was == orders_before[request.order_id].status
            now == orders[request.order_id].status
        IN /\ was = created => now = composing
           /\ was = composing => now = composed
           /\ was = composed => now = composed
           /\ was = delivering => now = delivering
           /\ was = delivered => now = delivered
           /\ was = cancelled => now = cancelled

C1_Witness ==
    /\ order_found
    /\ orders_before[request.order_id].status = composing
    /\ orders[request.order_id].status = composed

\* C2: a caller that is unauthenticated or not staff is redirected to login by
\* each staff operation, and the operation has no side effect.
\* Stated for the requests that reach the store: a status change that names
\* no stored order is the not-found case of C3.
C2_StaffGate ==
    (/\ request.view # "none"
     /\ ~request.user.is_staff
     /\ change_status_served => order_found) =>
        /\ orders = orders_before
        /\ response = redirect("login")

\* C3: change_status with an order id that is not stored fails with Http404
\* and writes nothing.
C3_NotFound ==
    (change_status_served /\ ~order_found) =>
        /\ response = Http404
        /\ orders = orders_before

C3_Witness ==
    /\ change_status_served /\ ~order_found
    /\ response = Http404
    /\ \E id \in DOMAIN orders : orders[id].status = created

\* C4: the listing holds exactly the orders whose status is created, composing
\* or composed, each exactly once.
C4_ListingFilter ==
    listing_rendered =>
        /\ { listing[i].id : i \in 1..Len(listing) } =
              { id \in DOMAIN orders : orders[id].status \in {created, composing, composed} }
        /\ \A i, j \in 1..Len(listing) : listing[i].id = listing[j].id => i = j
        /\ \A i \in 1..Len(listing) : listing[i].status = orders[listing[i].id].status

C4_Witness ==
    /\ listing_rendered
    /\ Len(listing) = 2
    /\ \E id \in DOMAIN orders : orders[id].status \in {delivering, delivered, cancelled}

\* C5: the listing is sorted by workflow stage first and by order id second.
C5_ListingOrder ==
    listing_rendered =>
        \A i, j \in 1..Len(listing) :
            i < j =>
                \/ StagePosition(listing[i].status) < StagePosition(listing[j].status)
                \/ /\ listing[i].status = listing[j].status
                   /\ listing[i].id < listing[j].id

C5_Witness ==
    /\ listing_rendered
    /\ Len(listing) = 3
    /\ listing[1].id > listing[2].id
    /\ listing[2].status = listing[3].status

\* C7: change_status writes only the status of the order it looked up: that
\* order's composed_at and delivered_at and every other order stay as they were.
C7_OnlyStatusWritten ==
    change_status_served =>
        /\ DOMAIN orders = DOMAIN orders_before
        /\ \A id \in DOMAIN orders :
              /\ orders[id].composed_at = orders_before[id].composed_at
              /\ orders[id].delivered_at = orders_before[id].delivered_at
              /\ id # request.order_id => orders[id] = orders_before[id]

C7_Witness ==
    /\ order_found
    /\ orders_before[request.order_id].status = composing
    /\ orders[request.order_id].status = composed
    /\ orders[request.order_id].composed_at = NULL
    /\ \E id \in DOMAIN orders : id # request.order_id /\ orders[id].composed_at # NULL

\* C8: change_status on an order in composed, delivering, delivered or
\* cancelled leaves the stored state as it was, however often it is called.
C8_NoOpIdempotent ==
    (order_found /\
     orders_before[request.order_id].status \in {composed, delivering, delivered, cancelled})
        => orders = orders_before

C8_Witness ==
    /\ order_found
    /\ orders_before[request.order_id].status = composed
    /\ orders = orders_before
    /\ listing_rendered

----------------------------------------------------------------------------
(* Properties of the availability view *)

matrix_rendered ==
    response.kind = "render" /\ response.template_name = "bouquets-availability.html"
matrix == response.context.bouquets_availability

\* the position of a shop in address order: one more than the number of shops
\* whose address is smaller
ShopPosition(sh) ==
    1 + Cardinality({ o \in DOMAIN shops : StrLess(shops[o], shops[sh]) })

\* C6: the matrix has one row per bouquet; each row has one entry per shop,
\* the i-th being the availability flag of the catalog item of the i-th shop
\* in address order for that bouquet, and false where there is no such item.
C6_AvailabilityMatrix ==
    matrix_rendered =>
        /\ { matrix[r][1] : r \in 1..Len(matrix) } = DOMAIN bouquets
        /\ Len(matrix) = Cardinality(DOMAIN bouquets)
        /\ \A r \in 1..Len(matrix) :
              LET b == matrix[r][1]
                  row == matrix[r][2]
              IN /\ Len(row) = Cardinality(DOMAIN shops)
                 /\ \A sh \in DOMAIN shops :
                       row[ShopPosition(sh)] =
                           IF <<sh, b>> \in DOMAIN catalog THEN catalog[<<sh, b>>] ELSE FALSE

C6_Witness ==
    /\ matrix_rendered
    /\ Len(matrix) = 2
    /\ Cardinality(DOMAIN shops) = 2
    /\ StrLess(shops[2], shops[1])
    /\ matrix[1][2] = <<TRUE, FALSE>>
    /\ <<2, matrix[1][1]>> \in DOMAIN catalog
    /\ <<1, matrix[1][1]>> \notin DOMAIN catalog
    /\ matrix[2][2] = <<FALSE, TRUE>>
    /\ <<2, matrix[2][1]>> \in DOMAIN catalog
    /\ <<1, matrix[2][1]>> \in DOMAIN catalog

----------------------------------------------------------------------------
(* Properties of concurrent change_status requests (ConcurrentSpec; there   *)
(* orders_before stays the table of the initial state)                      *)

\* the status a save writes for the status its request had read
WrittenFor(read) ==
    CASE read = created -> composing
      [] read = composing -> composed
      [] OTHER -> read

\* C9: the save of a request writes the advance of the status that request
\* read, whatever is stored by then, so the last save wins: after two saves
\* that both read created the order is composing, one advance is lost.
C9_LastWriteWins ==
    \A id \in DOMAIN orders :
        /\ writes[id] = <<>> => orders[id].status = orders_before[id].status
        /\ writes[id] # <<>> => orders[id].status = WrittenFor(writes[id][Len(writes[id])])
        /\ writes[id] = <<created, created>> => orders[id].status = composing

C9_Witness ==
    \E id \in DOMAIN orders :
        /\ orders_before[id].status = created
        /\ writes[id] = <<created, created>>
        /\ orders[id].status = composing
        /\ \A w \in Workers : pc[w] = "idle"

\* C10: no write moves the stored status of an order to an earlier stage of
\* created < composing < composed.
C10_NeverBackward ==
    [][\A id \in DOMAIN orders :
          StagePosition(orders'[id].status) >= StagePosition(orders[id].status)]_vars

====
